---- MODULE Spec2Model ----
(***************************************************************************)
(* go-func-logger (main.go): instrument a Go source file with one entry    *)
(* trace and one exit trace per exit point of every top-level function.    *)
(*                                                                         *)
(* The state machine follows AddLogsToFile: GetAllFuncInfo (one loop       *)
(* iteration per step), GenerateLogs (one function per step),              *)
(* ReadFileLines and WriteLogsToFile.  The input is the parsed file (the   *)
(* declarations with the positions go/parser gives them) and the bytes of  *)
(* the same file, as a sequence of terminated lines.                       *)
(***************************************************************************)
EXTENDS Integers, Sequences, FiniteSets, TLC

VARIABLES
    decls,      \* root.Decls: the parsed top-level declarations
    srcFile,    \* the source file on disk: a sequence of terminated lines
    pc,         \* position of the run inside AddLogsToFile
    declIdx,    \* GetAllFuncInfo: index of the declaration inspected next
    fnInfo,     \* GetAllFuncInfo: the []FuncInfo built so far
    genIdx,     \* GenerateLogs: index of the FuncInfo processed next
    count,      \* GenerateLogs: the running counter
    logs,       \* GenerateLogs: map[int][]LogInfo
    genOrder,   \* history: every log appended to logs, in generation order
    contents,   \* ReadFileLines: the lines read
    srcHandle,  \* the *os.File of the source: "unopened", "open", "closed"
    dstHandle,  \* the *os.File of the destination
    dstFile     \* the destination file on disk: "absent" or a sequence of lines

vars == <<decls, srcFile, pc, declIdx, fnInfo, genIdx, count, logs, genOrder,
          contents, srcHandle, dstHandle, dstFile>>

----------------------------------------------------------------------------
(* Bounds of the explored inputs *)

MaxDecls == 2   \* declarations in a file of several declarations
MaxStmts == 2   \* top-level statements in the body of the single-function file
MaxInner == 1   \* return statements nested inside one top-level statement

----------------------------------------------------------------------------
(* Helpers on sequences *)

RECURSIVE Flatten(_)
Flatten(ss) == IF ss = <<>> THEN <<>> ELSE Head(ss) \o Flatten(Tail(ss))

RECURSIVE SelectNonEmpty(_)
SelectNonEmpty(s) ==
    IF s = <<>> THEN <<>>
    ELSE IF Head(s) = "" THEN SelectNonEmpty(Tail(s))
         ELSE <<Head(s)>> \o SelectNonEmpty(Tail(s))

SeqsUpTo(S, n) == UNION {[1..k -> S] : k \in 0..n}

----------------------------------------------------------------------------
(* token.Position and the syntax tree, as go/parser delivers them *)

Pos(l, c) == [Line |-> l, Column |-> c]

\* a statement node: its position, whether it is an *ast.ReturnStmt, and the
\* statement nodes below it (blocks, function literals)
Node(p, r, ks) == [pos |-> p, isRet |-> r, kids |-> ks]

NoPosition == Pos(0, 0)

\* token.Pos.IsValid, read off the position
IsValidPos(p) == p.Line > 0

NoBody == [present |-> FALSE, Lbrace |-> NoPosition, Rbrace |-> NoPosition, List |-> <<>>]

----------------------------------------------------------------------------
(* The explored inputs.  A statement shape says whether the statement is a  *)
(* return, how many return statements lie inside it (the body of an if, a   *)
(* function literal) and whether those share its line.  LayStmt and         *)
(* FuncBody give every node the position it has in a file laid out either  *)
(* on one line or one statement per line, one tab per nesting level.       *)

StmtShapes ==
    {sh \in [ret : BOOLEAN, inner : 0..MaxInner, inline : BOOLEAN] :
        sh.inner = 0 => ~sh.inline}

LayStmt(sh, l, c, oneLine) ==
    LET inl  == sh.inline \/ oneLine
        kids == [k \in 1..sh.inner |->
                    Node(IF inl THEN Pos(l, c + 4 * k) ELSE Pos(l + k, c + 1),
                         TRUE, <<>>)]
    IN  [node    |-> Node(Pos(l, c), sh.ret, kids),
         endLine |-> IF inl \/ sh.inner = 0 THEN l ELSE l + sh.inner + 1,
         endCol  |-> IF inl THEN c + 4 * sh.inner + 2 ELSE c + 2]

RECURSIVE LayStmts(_, _, _, _)
LayStmts(shapes, l, c, oneLine) ==
    IF shapes = <<>> THEN <<>>
    ELSE LET s == LayStmt(Head(shapes), l, c, oneLine)
         IN  <<s>> \o LayStmts(Tail(shapes),
                               IF oneLine THEN l ELSE s.endLine + 1,
                               IF oneLine THEN s.endCol + 2 ELSE 2,
                               oneLine)

\* the body of a function whose header is on line hl: "func f(...) {"
FuncBody(shapes, hl, oneLine) ==
    LET lbCol == 10
        laid  == IF oneLine THEN LayStmts(shapes, hl, lbCol + 2, TRUE)
                            ELSE LayStmts(shapes, hl + 1, 2, FALSE)
        last  == laid[Len(laid)]
    IN  [present |-> TRUE,
         Lbrace  |-> Pos(hl, lbCol),
         Rbrace  |-> IF shapes = <<>>
                       THEN (IF oneLine THEN Pos(hl, lbCol + 1) ELSE Pos(hl + 1, 1))
                       ELSE (IF oneLine THEN Pos(hl, last.endCol + 2)
                                        ELSE Pos(last.endLine + 1, 1)),
         List    |-> [i \in 1..Len(laid) |-> laid[i].node]]

\* parameter and result lists: a list of fields, each field the names it binds
Sig(ps, rs) == [params |-> ps, results |-> rs]
SigPlain         == Sig(<<>>, <<>>)
SigNamed         == Sig(<< <<"a">>, <<"b">> >>, << <<>> >>)
SigUnnamed       == Sig(<< <<>>, <<>> >>, <<>>)
SigGroupedParam  == Sig(<< <<"a", "b">> >>, <<>>)
SigGroupedResult == Sig(<< <<"a">> >>, << <<"r", "s">> >>)
Sigs == {SigPlain, SigNamed, SigUnnamed, SigGroupedParam, SigGroupedResult}

Names == <<"f", "g", "h", "k">>

\* a declaration shape: a GenDecl, a FuncDecl without body, a FuncDecl with body
Shape(k, sig, b, one, ss) ==
    [kind |-> k, sig |-> sig, hasBody |-> b, oneLine |-> one, stmts |-> ss]

Plain == [ret |-> FALSE, inner |-> 0, inline |-> FALSE]
Ret   == [ret |-> TRUE,  inner |-> 0, inline |-> FALSE]
Block == [ret |-> FALSE, inner |-> 1, inline |-> FALSE]
RetLit == [ret |-> TRUE, inner |-> 1, inline |-> TRUE]

\* the declarations of the files of several declarations
FileShapes ==
    {Shape("gen", SigPlain, FALSE, FALSE, <<>>),
     Shape("func", SigPlain, FALSE, FALSE, <<>>),
     Shape("func", SigGroupedParam, FALSE, FALSE, <<>>)}
    \cup {Shape("func", sig, TRUE, FALSE, <<Ret>>) : sig \in Sigs}
    \cup {Shape("func", SigPlain, TRUE, one, <<>>) : one \in BOOLEAN}
    \cup {Shape("func", SigPlain, TRUE, FALSE, <<Block, Plain>>),
          Shape("func", SigNamed, TRUE, FALSE, <<RetLit>>),
          Shape("func", SigPlain, TRUE, TRUE, <<Plain>>)}

\* the declarations of the files of one function
RichShapes ==
    {Shape("func", sig, TRUE, one, ss) :
        sig \in Sigs, one \in BOOLEAN, ss \in SeqsUpTo(StmtShapes, MaxStmts)}

LayDecl(sh, hl, idx) ==
    [kind    |-> sh.kind,
     Line    |-> hl,
     Name    |-> Names[idx],
     Params  |-> sh.sig.params,
     Results |-> sh.sig.results,
     Body    |-> IF sh.kind = "func" /\ sh.hasBody
                   THEN FuncBody(sh.stmts, hl, sh.oneLine) ELSE NoBody]

DeclEndLine(d, hl) == IF d.Body.present THEN d.Body.Rbrace.Line ELSE hl

RECURSIVE LayDecls(_, _, _)
LayDecls(shapes, hl, idx) ==
    IF shapes = <<>> THEN <<>>
    ELSE LET d == LayDecl(Head(shapes), hl, idx)
         IN  <<d>> \o LayDecls(Tail(shapes), DeclEndLine(d, hl) + 1, idx + 1)

\* line 1 holds the package clause; the declarations follow from line 2
ParsedFile(shapes) == LayDecls(shapes, 2, 1)

RECURSIVE LastLine(_, _)
LastLine(ds, hl) ==
    IF ds = <<>> THEN hl - 1 ELSE LastLine(Tail(ds), DeclEndLine(Head(ds), hl) + 1)

\* the text of source line n, and the file as terminated lines
SrcText(n) == [fn |-> "src", msg |-> "", name |-> "", line |-> n,
               verbs |-> <<>>, args |-> <<>>]
Str(ind, body) == [indent |-> ind, body |-> body]
FileOnDisk(ds, eol) ==
    [n \in 1..LastLine(ds, 2) |-> [text |-> Str(<<>>, SrcText(n)), eol |-> eol]]

----------------------------------------------------------------------------
(* Function Extractor and Insertion-Point Locator *)

NewFuncInfo ==
    [Name |-> "", Params |-> <<>>, Returns |-> <<>>,
     EntryLogPos |-> NoPosition, ExitLogPos |-> <<>>]

\* faulty variant: every declared function counts as having a body
IsFuncBodyValidAlways(body) == TRUE

IsFuncBodyValid(body) ==
    /\ body.present
    /\ IsValidPos(body.Lbrace)
    /\ IsValidPos(body.Rbrace)

\* faulty variant: a field of several names is read as its first name
FieldIsFatalNever(field) == FALSE

\* log.Fatal("unknown parameter type") is reached for a field of several names
FieldIsFatal(field) == Len(field) > 1

ExtractNameFromField(field) == IF Len(field) = 0 THEN "" ELSE field[1]

\* the names of a field list, or fatal when one of its fields ends the process
GetParamNames(params) ==
    [fatal |-> \E i \in DOMAIN params : FieldIsFatal(params[i]),
     names |-> [i \in DOMAIN params |-> ExtractNameFromField(params[i])]]

\* ast.Inspect visits a node, then its children in source order
RECURSIVE InspectReturns(_)
InspectReturns(n) ==
    (IF n.isRet THEN <<n.pos>> ELSE <<>>)
        \o Flatten([i \in DOMAIN n.kids |-> InspectReturns(n.kids[i])])

FindReturnStmts(fn) ==
    Flatten([i \in DOMAIN fn.Body.List |-> InspectReturns(fn.Body.List[i])])

\* faulty variant: the entry point is always the opening brace
EntryLogPosOfBrace(body) == body.Lbrace

EntryLogPosOf(body) ==
    IF Len(body.List) = 0 THEN body.Lbrace ELSE body.List[1].pos

\* faulty variant: the column is taken from the first statement
ClosingExitPosFirstStmt(body) ==
    IF Len(body.List) # 0
      THEN Pos(body.Rbrace.Line, body.List[1].pos.Column)
      ELSE body.Rbrace

\* exitLogPos and lastRet of ExtractFuncInfo
ClosingExitPos(body) ==
    IF Len(body.List) # 0
      THEN Pos(body.Rbrace.Line, body.List[Len(body.List)].pos.Column)
      ELSE body.Rbrace

LastIsReturn(body) == Len(body.List) # 0 /\ body.List[Len(body.List)].isRet

\* faulty variant: the closing-brace exit only when no return was found
NeedsClosingExitNoReturnOnly(rets, body) == Len(rets) = 0

NeedsClosingExit(rets, body) == Len(rets) = 0 \/ ~LastIsReturn(body)

\* faulty variant: the closing-brace exit is put before the returns
ExitLogPosOfClosingFirst(fn) ==
    LET rets == FindReturnStmts(fn)
    IN  IF NeedsClosingExit(rets, fn.Body)
          THEN <<ClosingExitPos(fn.Body)>> \o rets ELSE rets

ExitLogPosOf(fn) ==
    LET rets == FindReturnStmts(fn)
    IN  IF NeedsClosingExit(rets, fn.Body)
          THEN Append(rets, ClosingExitPos(fn.Body)) ELSE rets

\* [fatal, ok, info]: fatal when log.Fatal ends the process inside the call
ExtractFuncInfo(fn) ==
    IF ~IsFuncBodyValid(fn.Body)
      THEN [fatal |-> FALSE, ok |-> FALSE, info |-> NewFuncInfo]
      ELSE LET ps == GetParamNames(fn.Params)
               rs == GetParamNames(fn.Results)
           IN  IF ps.fatal \/ rs.fatal
                 THEN [fatal |-> TRUE, ok |-> FALSE, info |-> NewFuncInfo]
                 ELSE [fatal |-> FALSE, ok |-> TRUE,
                       info  |-> [Name        |-> fn.Name,
                                  Params      |-> ps.names,
                                  Returns     |-> rs.names,
                                  EntryLogPos |-> EntryLogPosOf(fn.Body),
                                  ExitLogPos  |-> ExitLogPosOf(fn)]]

----------------------------------------------------------------------------
(* Trace Composer *)

\* the names that reach the format string and the argument list
GetParamLog(params) == SelectNonEmpty(params)

\* fmt.Printf("Starting func <name> with values: p: %+v, ...\n", p, ...) or
\* fmt.Println("Starting func <name>")
GetEntryLogInfo(info) ==
    LET ps == GetParamLog(info.Params)
    IN  [Log |-> [fn    |-> IF Len(ps) # 0 THEN "fmt.Printf" ELSE "fmt.Println",
                  msg   |-> "Starting func",
                  name  |-> info.Name,
                  line  |-> 0,
                  verbs |-> ps,
                  args  |-> ps],
         Col |-> info.EntryLogPos.Column]

\* fmt.Println("Exiting func <name> from line <line>")
GetExitLogInfo(info, idx, line) ==
    [Log |-> [fn    |-> "fmt.Println",
              msg   |-> "Exiting func",
              name  |-> info.Name,
              line  |-> line,
              verbs |-> <<>>,
              args  |-> <<>>],
     Col |-> info.ExitLogPos[idx].Column]

\* faulty variant: the slice of a line is overwritten, not appended to
AppendLogOverwrite(lg, line, li) ==
    [l \in DOMAIN lg \cup {line} |-> IF l = line THEN <<li>> ELSE lg[l]]

\* logs[line] = append(logs[line], li)
AppendLog(lg, line, li) ==
    [l \in DOMAIN lg \cup {line} |->
        IF l = line
          THEN (IF line \in DOMAIN lg THEN Append(lg[line], li) ELSE <<li>>)
          ELSE lg[l]]

\* faulty variant: the counter is read after it counted the exit trace itself
ExitLineAfterIncrement(rawLine, cnt) == rawLine + cnt + 1

\* the line an exit trace reports: the raw line plus the counter read now
ExitLine(rawLine, cnt) == rawLine + cnt

\* the inner loop of GenerateLogs from exit idx on; st = [logs, count, order]
RECURSIVE GenerateExits(_, _, _)
GenerateExits(info, idx, st) ==
    IF idx > Len(info.ExitLogPos) THEN st
    ELSE LET raw == info.ExitLogPos[idx].Line
             li  == GetExitLogInfo(info, idx, ExitLine(raw, st.count))
         IN  GenerateExits(info, idx + 1,
                 [logs  |-> AppendLog(st.logs, raw, li),
                  count |-> st.count + 1,
                  order |-> Append(st.order, [line |-> raw, info |-> li])])

\* one iteration of the outer loop of GenerateLogs
GenerateFunc(info, st) ==
    LET li == GetEntryLogInfo(info)
    IN  GenerateExits(info, 1,
            [logs  |-> AppendLog(st.logs, info.EntryLogPos.Line, li),
             count |-> st.count + 1,
             order |-> Append(st.order, [line |-> info.EntryLogPos.Line, info |-> li])])

----------------------------------------------------------------------------
(* Line Merger *)

\* bufio.ScanLines: a line is the text before "\n", without a trailing "\r";
\* the model keeps the "\r" in the terminator
ScanText(raw) == raw.text

ScanAll(file) == [n \in DOMAIN file |-> ScanText(file[n])]

\* strings.Repeat("\t", n)
Repeat(unit, n) == [i \in 1..n |-> unit]

\* the lines written for one LogInfo: fmt.Fprintln(wr, indent + info.Log)
LogLine(li) == Str(Repeat("\t", li.Col - 1), li.Log)

\* faulty variant: a line that has traces is replaced by them
MergeLineReplace(lines, lg, idx) ==
    IF idx \in DOMAIN lg THEN [j \in DOMAIN lg[idx] |-> LogLine(lg[idx][j])]
                          ELSE <<lines[idx]>>

\* the lines written for contents[idx]: its traces, then the line itself
MergeLine(lines, lg, idx) ==
    (IF idx \in DOMAIN lg THEN [j \in DOMAIN lg[idx] |-> LogLine(lg[idx][j])] ELSE <<>>)
        \o <<lines[idx]>>

\* everything WriteLogsToFile hands to the writer
MergedLines(lines, lg) == Flatten([idx \in DOMAIN lines |-> MergeLine(lines, lg, idx)])

----------------------------------------------------------------------------
(* The run: main -> AddLogsToFile *)

NoFile == [exists |-> FALSE, lines |-> <<>>]

InitRun ==
    /\ pc = "extract"
    /\ declIdx = 1
    /\ fnInfo = <<>>
    /\ genIdx = 1
    /\ count = 0
    /\ logs = <<>>
    /\ genOrder = <<>>
    /\ contents = <<>>
    /\ srcHandle = "unopened"
    /\ dstHandle = "unopened"
    /\ dstFile = NoFile

\* a file of up to MaxDecls declarations, with "\n" or "\r\n" line ends
InitFile ==
    /\ \E shapes \in SeqsUpTo(FileShapes, MaxDecls), eol \in {"\n", "\r\n"} :
          /\ decls = ParsedFile(shapes)
          /\ srcFile = FileOnDisk(decls, eol)
    /\ InitRun

\* a file of one function with up to MaxStmts statements
InitOne ==
    /\ \E sh \in RichShapes :
          /\ decls = ParsedFile(<<sh>>)
          /\ srcFile = FileOnDisk(decls, "\n")
    /\ InitRun

Init == InitFile \/ InitOne

\* GetAllFuncInfo: one iteration of the loop over root.Decls
GetAllFuncInfoStep ==
    /\ pc = "extract"
    /\ declIdx <= Len(decls)
    /\ LET d == decls[declIdx]
           r == ExtractFuncInfo(d)
       IN  IF d.kind # "func"
             THEN /\ declIdx' = declIdx + 1
                  /\ UNCHANGED <<pc, fnInfo>>
             ELSE IF r.fatal
               THEN /\ pc' = "fatal"
                    /\ UNCHANGED <<declIdx, fnInfo>>
               ELSE /\ declIdx' = declIdx + 1
                    /\ fnInfo' = IF r.ok THEN Append(fnInfo, r.info) ELSE fnInfo
                    /\ pc' = pc
    /\ UNCHANGED <<decls, srcFile, genIdx, count, logs, genOrder, contents,
                   srcHandle, dstHandle, dstFile>>

GetAllFuncInfoReturn ==
    /\ pc = "extract"
    /\ declIdx > Len(decls)
    /\ pc' = "generate"
    /\ UNCHANGED <<decls, srcFile, declIdx, fnInfo, genIdx, count, logs, genOrder,
                   contents, srcHandle, dstHandle, dstFile>>

\* GenerateLogs: one iteration of the loop over fnInfo
GenerateLogsStep ==
    /\ pc = "generate"
    /\ genIdx <= Len(fnInfo)
    /\ LET st == GenerateFunc(fnInfo[genIdx],
                              [logs |-> logs, count |-> count, order |-> genOrder])
       IN  /\ logs' = st.logs
           /\ count' = st.count
           /\ genOrder' = st.order
    /\ genIdx' = genIdx + 1
    /\ UNCHANGED <<decls, srcFile, pc, declIdx, fnInfo, contents,
                   srcHandle, dstHandle, dstFile>>

GenerateLogsReturn ==
    /\ pc = "generate"
    /\ genIdx > Len(fnInfo)
    /\ pc' = "read"
    /\ UNCHANGED <<decls, srcFile, declIdx, fnInfo, genIdx, count, logs, genOrder,
                   contents, srcHandle, dstHandle, dstFile>>

\* ReadFileLines: os.Open fails, log.Fatal
ReadFileLinesOpenFails ==
    /\ pc = "read"
    /\ pc' = "fatal"
    /\ UNCHANGED <<decls, srcFile, declIdx, fnInfo, genIdx, count, logs, genOrder,
                   contents, srcHandle, dstHandle, dstFile>>

\* ReadFileLines: scanner.Err() # nil, log.Fatal exits the process and the
\* deferred file.Close() does not run
ReadFileLinesScanFails ==
    /\ pc = "read"
    /\ srcHandle' = "open"
    /\ pc' = "fatal"
    /\ UNCHANGED <<decls, srcFile, declIdx, fnInfo, genIdx, count, logs, genOrder,
                   contents, dstHandle, dstFile>>

\* ReadFileLines returns: the deferred file.Close() runs
ReadFileLines ==
    /\ pc = "read"
    /\ contents' = ScanAll(srcFile)
    /\ srcHandle' = "closed"
    /\ pc' = "write"
    /\ UNCHANGED <<decls, srcFile, declIdx, fnInfo, genIdx, count, logs, genOrder,
                   dstHandle, dstFile>>

\* WriteLogsToFile: os.Create fails, log.Fatal
WriteLogsToFileCreateFails ==
    /\ pc = "write"
    /\ pc' = "fatal"
    /\ UNCHANGED <<decls, srcFile, declIdx, fnInfo, genIdx, count, logs, genOrder,
                   contents, srcHandle, dstHandle, dstFile>>

\* WriteLogsToFile: wr.Flush() fails after part of the lines reached the file;
\* log.Fatal exits the process and the deferred file.Close() does not run
WriteLogsToFileFlushFails ==
    /\ pc = "write"
    /\ LET all == MergedLines(contents, logs)
       IN  \E k \in 0..(Len(all) - 1) :
              dstFile' = [exists |-> TRUE, lines |-> SubSeq(all, 1, k)]
    /\ dstHandle' = "open"
    /\ pc' = "fatal"
    /\ UNCHANGED <<decls, srcFile, declIdx, fnInfo, genIdx, count, logs, genOrder,
                   contents, srcHandle>>

\* WriteLogsToFile returns: everything is flushed, the deferred file.Close() runs
WriteLogsToFile ==
    /\ pc = "write"
    /\ dstFile' = [exists |-> TRUE, lines |-> MergedLines(contents, logs)]
    /\ dstHandle' = "closed"
    /\ pc' = "done"
    /\ UNCHANGED <<decls, srcFile, declIdx, fnInfo, genIdx, count, logs, genOrder,
                   contents, srcHandle>>

Next ==
    \/ GetAllFuncInfoStep
    \/ GetAllFuncInfoReturn
    \/ GenerateLogsStep
    \/ GenerateLogsReturn
    \/ ReadFileLinesOpenFails
    \/ ReadFileLinesScanFails
    \/ ReadFileLines
    \/ WriteLogsToFileCreateFails
    \/ WriteLogsToFileFlushFails
    \/ WriteLogsToFile

Spec == Init /\ [][Next]_vars

----------------------------------------------------------------------------
(* Vocabulary of the properties, independent of the operators above *)

\* the declaration a FuncInfo was made from (names are distinct in a file)
DeclOf(info) == CHOOSE d \in {decls[i] : i \in DOMAIN decls} : d.Name = info.Name

\* positions of the return statements in the subtree of a statement
RECURSIVE ReturnsIn(_)
ReturnsIn(n) ==
    (IF n.isRet THEN {n.pos} ELSE {})
        \cup UNION {ReturnsIn(n.kids[i]) : i \in DOMAIN n.kids}

ReturnsOfBody(body) == UNION {ReturnsIn(body.List[i]) : i \in DOMAIN body.List}

Before(p, q) == p.Line < q.Line \/ (p.Line = q.Line /\ p.Column < q.Column)

EndsWithReturn(body) == body.List # <<>> /\ body.List[Len(body.List)].isRet

\* C1: a recorded function has R exit positions when its last top-level
\* statement is a return and R + 1 otherwise, R the number of return
\* statements anywhere in its body; the sequence is never empty, the R
\* positions of the returns come first, in source order, the closing-brace
\* position last.
C1_ExitCount ==
    \A i \in DOMAIN fnInfo :
        LET body  == DeclOf(fnInfo[i]).Body
            rets  == ReturnsOfBody(body)
            R     == Cardinality(rets)
            exits == fnInfo[i].ExitLogPos
        IN  /\ Len(exits) = IF EndsWithReturn(body) THEN R ELSE R + 1
            /\ Len(exits) >= 1
            /\ {exits[j] : j \in 1..R} = rets
            /\ \A j \in 1..(R - 1) : Before(exits[j], exits[j + 1])
            /\ ~EndsWithReturn(body) => exits[R + 1].Line = body.Rbrace.Line

C1_Witness ==
    \E i \in DOMAIN fnInfo :
        LET body == DeclOf(fnInfo[i]).Body
        IN  /\ Cardinality(ReturnsOfBody(body)) >= 2
            /\ ~EndsWithReturn(body)
            /\ Len(fnInfo[i].ExitLogPos) = Cardinality(ReturnsOfBody(body)) + 1

\* the closing-brace exit of a recorded function that has one
HasClosingExit(info) == ~EndsWithReturn(DeclOf(info).Body)
ClosingExit(info) == info.ExitLogPos[Len(info.ExitLogPos)]

out == dstFile.lines
IsExit(e) == e.info.Log.msg = "Exiting func"
TracesAt(n) == SelectSeq(genOrder, LAMBDA e : e.line = n)
TracesUpTo(n) == Cardinality({k \in DOMAIN genOrder : genOrder[k].line <= n})
OutIndex(n) == n + TracesUpTo(n)
IsSrcLine(str) == str.body.fn = "src"
IsTraceLine(str) == str.body.fn # "src"

RECURSIVE LogCount(_, _)
LogCount(lg, keys) ==
    IF keys = {} THEN 0
    ELSE LET n == CHOOSE x \in keys : TRUE
         IN  Len(lg[n]) + LogCount(lg, keys \ {n})

LogsUpTo(n) == LogCount(logs, {l \in DOMAIN logs : l <= n})

\* C3: the merged output holds every original line verbatim and in order:
\* its length is the original line count plus the number of trace lines,
\* original line n sits after the trace lines keyed up to n, the output
\* without its trace lines is the original line sequence, and a line with
\* no entry in the index directly follows the original line before it.
C3_OriginalPreserved ==
    pc = "done" =>
        /\ Len(out) = Len(srcFile) + LogCount(logs, DOMAIN logs)
        /\ \A n \in DOMAIN srcFile : out[n + LogsUpTo(n)] = srcFile[n].text
        /\ SelectSeq(out, IsSrcLine) = [n \in DOMAIN srcFile |-> srcFile[n].text]
        /\ \A n \in DOMAIN srcFile :
              (n \notin DOMAIN logs /\ n > 1) => LogsUpTo(n) = LogsUpTo(n - 1)

C3_Witness ==
    /\ pc = "done"
    /\ \E n \in DOMAIN logs : Len(logs[n]) >= 2
    /\ \E n \in DOMAIN srcFile : n > 1 /\ n \notin DOMAIN logs /\ LogsUpTo(n) > 0
    /\ \E n \in DOMAIN srcFile : srcFile[n].eol = "\r\n"
    /\ Len(out) > Len(srcFile)

\* C4: for every line n with traces in the index, the output holds exactly
\* those traces, in generation order, each after (Col - 1) tabs, directly
\* before original line n; every generated trace is in the index at a line
\* of the file and the output holds no other trace line.
C4_TracesMerged ==
    pc = "done" =>
        /\ \A k \in DOMAIN genOrder : genOrder[k].line \in DOMAIN logs
        /\ \A n \in DOMAIN logs :
              LET gen == TracesAt(n)
              IN  /\ n \in DOMAIN contents
                  /\ logs[n] = [j \in DOMAIN gen |-> gen[j].info]
                  /\ out[OutIndex(n)] = contents[n]
                  /\ \A j \in DOMAIN gen :
                        LET l == out[OutIndex(n) - Len(gen) + j - 1]
                        IN  /\ l.body = gen[j].info.Log
                            /\ Len(l.indent) = gen[j].info.Col - 1
                            /\ \A t \in DOMAIN l.indent : l.indent[t] = "\t"
        /\ Len(SelectSeq(out, IsTraceLine)) = Len(genOrder)

C4_Witness ==
    /\ pc = "done"
    /\ \E n \in DOMAIN logs :
          /\ Len(logs[n]) >= 3
          /\ logs[n][1].Col # logs[n][3].Col
          /\ Len(out[OutIndex(n) - 1].indent) = logs[n][3].Col - 1

\* what GenerateLogs must have appended for the functions done so far
ExpectedOrder ==
    Flatten([i \in 1..(genIdx - 1) |->
        <<[name |-> fnInfo[i].Name, msg |-> "Starting func",
           line |-> fnInfo[i].EntryLogPos.Line]>>
        \o [j \in DOMAIN fnInfo[i].ExitLogPos |->
              [name |-> fnInfo[i].Name, msg |-> "Exiting func",
               line |-> fnInfo[i].ExitLogPos[j].Line]]])

ActualOrder ==
    [k \in DOMAIN genOrder |->
        [name |-> genOrder[k].info.Log.name, msg |-> genOrder[k].info.Log.msg,
         line |-> genOrder[k].line]]

\* C5: the line an exit trace reports is the raw line of its exit point plus
\* the number of traces generated before it in the whole file; the counter
\* counts every trace, functions are taken in declaration order, and the
\* entry trace of a function comes before its exit traces.
C5_CompensatedLine ==
    /\ count = Len(genOrder)
    /\ ActualOrder = ExpectedOrder
    /\ \A i, j \in DOMAIN fnInfo :
          i < j => DeclOf(fnInfo[i]).Line < DeclOf(fnInfo[j]).Line
    /\ \A k \in DOMAIN genOrder :
          IsExit(genOrder[k]) =>
              genOrder[k].info.Log.line = genOrder[k].line + (k - 1)

C5_Witness ==
    /\ pc = "done"
    /\ Len(fnInfo) >= 2
    /\ \E k \in DOMAIN genOrder :
          /\ k >= 4
          /\ IsExit(genOrder[k])
          /\ genOrder[k].info.Log.name = fnInfo[2].Name
          /\ genOrder[k].info.Log.line = genOrder[k].line + (k - 1)

\* C6: when the run has ended, normally or by log.Fatal, neither file
\* handle is still open.
C6_HandlesReleased ==
    pc \in {"done", "fatal"} => (srcHandle # "open" /\ dstHandle # "open")

\* a function declaration with a parameter or result field of several names
Grouped(d) ==
    /\ d.kind = "func"
    /\ \/ \E i \in DOMAIN d.Params : Len(d.Params[i]) > 1
       \/ \E i \in DOMAIN d.Results : Len(d.Results[i]) > 1

\* the run never gets past GetAllFuncInfo and leaves no output
NothingProduced ==
    /\ pc \in {"extract", "fatal"}
    /\ declIdx <= Len(decls)
    /\ genOrder = <<>>
    /\ logs = <<>>
    /\ ~dstFile.exists
    /\ dstHandle = "unopened"

\* C7 as stated: if any top-level function declaration binds several names
\* in one parameter or result field, the run ends fatally: no record list
\* is returned, no trace is generated, the destination is never created.
C7_AsStated ==
    (\E i \in DOMAIN decls : Grouped(decls[i])) => NothingProduced

\* C7 amended: the same for a top-level function declaration that has a body.
C7_GroupedWithBodyFatal ==
    (\E i \in DOMAIN decls : Grouped(decls[i]) /\ decls[i].Body.present)
        => NothingProduced

C7_Witness ==
    /\ pc = "fatal"
    /\ Len(fnInfo) >= 1
    /\ declIdx = 2
    /\ Grouped(decls[2]) /\ decls[2].Body.present
    /\ ~dstFile.exists

\* a top-level function declaration whose body has both braces
Recordable(d) ==
    /\ d.kind = "func"
    /\ d.Body.present
    /\ d.Body.Lbrace.Line > 0
    /\ d.Body.Rbrace.Line > 0

InfoNames == [i \in DOMAIN fnInfo |-> fnInfo[i].Name]
NamesOf(ds) == [i \in DOMAIN ds |-> ds[i].Name]

\* C8: the records are those of the function declarations with a body, in
\* source order; a declaration that is no function or has no body gets no
\* record, no trace, and no line is inserted before it.
C8_OnlyBodiesRecorded ==
    /\ InfoNames = NamesOf(SelectSeq(SubSeq(decls, 1, declIdx - 1), Recordable))
    /\ \A k \in DOMAIN genOrder :
          \E i \in DOMAIN decls :
              Recordable(decls[i]) /\ decls[i].Name = genOrder[k].info.Log.name
    /\ \A i \in DOMAIN decls :
          ~Recordable(decls[i]) =>
              /\ decls[i].Line \notin DOMAIN logs
              /\ pc = "done" =>
                    /\ out[OutIndex(decls[i].Line)] = contents[decls[i].Line]
                    /\ OutIndex(decls[i].Line) = OutIndex(decls[i].Line - 1) + 1

C8_Witness ==
    /\ pc = "done"
    /\ Len(decls) >= 2
    /\ decls[1].kind = "func" /\ ~decls[1].Body.present
    /\ Recordable(decls[2])
    /\ InfoNames = <<decls[2].Name>>
    /\ genOrder # <<>>

EntriesOf(name) ==
    {k \in DOMAIN genOrder :
        genOrder[k].info.Log.msg = "Starting func" /\ genOrder[k].info.Log.name = name}

FirstPoint(body) == IF body.List = <<>> THEN body.Lbrace ELSE body.List[1].pos

\* C9: every recorded function gets exactly one entry trace, keyed at the
\* line of its first statement and indented to that statement's column, or
\* at the line and column of the opening brace when the body is empty.
C9_OneEntry ==
    /\ Cardinality({k \in DOMAIN genOrder : genOrder[k].info.Log.msg = "Starting func"})
          = genIdx - 1
    /\ \A i \in 1..(genIdx - 1) :
          LET first == FirstPoint(DeclOf(fnInfo[i]).Body)
          IN  /\ Cardinality(EntriesOf(fnInfo[i].Name)) = 1
              /\ \A k \in EntriesOf(fnInfo[i].Name) :
                    /\ genOrder[k].line = first.Line
                    /\ genOrder[k].info.Col = first.Column
                    /\ \E j \in DOMAIN logs[first.Line] :
                          logs[first.Line][j] = genOrder[k].info

C9_Witness ==
    /\ pc = "done"
    /\ \E i \in DOMAIN fnInfo :
          LET body == DeclOf(fnInfo[i]).Body
          IN  /\ body.List # <<>>
              /\ body.List[1].pos # body.Lbrace
              /\ \E k \in EntriesOf(fnInfo[i].Name) :
                    /\ genOrder[k].line = body.List[1].pos.Line
                    /\ genOrder[k].info.Col = body.List[1].pos.Column

\* traces generated after trace k for the same source line
LaterAtSameLine(k) ==
    Cardinality({m \in DOMAIN genOrder : m > k /\ genOrder[m].line = genOrder[k].line})

GeneratedInLineOrder ==
    \A k \in 1..(Len(genOrder) - 1) : genOrder[k].line <= genOrder[k + 1].line

ExitShownWhereItIs(k) ==
    LET shown == genOrder[k].info.Log.line
    IN  /\ shown \in DOMAIN out
        /\ out[shown].body = genOrder[k].info.Log
        /\ Len(out[shown].indent) = genOrder[k].info.Col - 1

\* C10 as stated: traces are generated in non-decreasing order of their
\* source line, the line an exit trace reports is the output line it is
\* written at, and the traced statement is on the next output line.
C10_AsStated ==
    /\ GeneratedInLineOrder
    /\ pc = "done" =>
          \A k \in DOMAIN genOrder :
              IsExit(genOrder[k]) =>
                  /\ ExitShownWhereItIs(k)
                  /\ out[genOrder[k].info.Log.line + 1] = contents[genOrder[k].line]

\* C10 amended: traces are generated in non-decreasing order of their
\* source line and the line an exit trace reports is the output line it is
\* written at; the traced statement follows after the traces generated
\* later for the same source line, so on the next line only without those.
C10_ShownIsOutputLine ==
    /\ GeneratedInLineOrder
    /\ pc = "done" =>
          \A k \in DOMAIN genOrder :
              IsExit(genOrder[k]) =>
                  /\ ExitShownWhereItIs(k)
                  /\ out[genOrder[k].info.Log.line + 1 + LaterAtSameLine(k)]
                        = contents[genOrder[k].line]

C10_Witness ==
    /\ pc = "done"
    /\ \E k \in DOMAIN genOrder :
          /\ IsExit(genOrder[k])
          /\ LaterAtSameLine(k) > 0
          /\ ExitShownWhereItIs(k)
          /\ IsTraceLine(out[genOrder[k].info.Log.line + 1])

====
